---- MODULE Spec2Model ----
(***************************************************************************)
(* Model of the Universalis API wrapper (src/universalis/__init__.py):     *)
(* the throttled request gateway UniversalisAPI._request, the facade       *)
(* operations built on it (get_current_data, get_bulk_current_data,        *)
(* get_history_data) and the record classes built from the responses.      *)
(*                                                                         *)
(* Time is in milliseconds.  The callers are asyncio coroutines on one     *)
(* event loop: code between two awaits runs as one atomic step, and the    *)
(* awaits of _request (asyncio.sleep, session.get, data.json) are the      *)
(* places where other callers run and where time passes.                   *)
(***************************************************************************)
EXTENDS Integers, Sequences, FiniteSets, TLC

(* ------------------------------ bounds --------------------------------- *)
\* The clock stops advancing at MaxTime.
MaxTime == 200
\* One step of the clock.
TickStep == 25
\* Longest item list handed to get_bulk_current_data.
MaxItems == 150
\* Largest number of seconds datetime.fromtimestamp converts (scaled down).
MaxTimestamp == 3
\* Longest generated raw key handed to _pep8_key_name.
MaxKeyLen == 3
\* Most calls of the constructor UniversalisAPI().
MaxClients == 3
\* Longest list of listings given to the listings setter to be sorted.
MaxListLen == 7

(* ------------------------- program constants --------------------------- *)
\* self._max_api_calls = 20
DefaultMaxApiCalls == 20
\* timedelta(milliseconds=1000 / self.max_api_calls)
MsPerSecond == 1000
\* "+ 0.1" seconds added to the sleep
MarginMs == 100
\* range(0, len(query), 100)
BatchSize == 100

Procs == {1, 2}
Statuses == {200, 400, 404, 500}
NoTime == 0 - 1

VARIABLES
    now,            \* datetime.now()
    api_call_time,  \* self.api_call_time
    max_api_calls,  \* self._max_api_calls
    session,        \* self.session: "None", "supplied" or "created"
    callers,        \* the coroutines that use the client
    pc,             \* where each caller is suspended
    op,             \* the facade operation a caller runs
    query,          \* get_bulk_current_data: query (the item IDs as given)
    batch_i,        \* get_bulk_current_data: the loop variable i
    results,        \* get_bulk_current_data: results (item key per aggregate)
    requests,       \* the ID lists of the URLs the running operation requested
    cur_time,       \* _request: cur_time
    elapsed,        \* _request: cur_time - self.api_call_time, as sampled
    sleep_time,     \* _request: sleep_time, in ms (0: no sleep asked)
    disp,           \* time at which the caller's GET was issued
    outcome,        \* what the facade operation gave its caller
    fresh_return,   \* no time has passed since the caller's last operation ended
    last_disp,      \* time of the latest GET issued by any caller
    last_gap,       \* time between the latest GET and the one before it
    last_ok_disp,   \* time the latest call that returned a body was issued
    chain,          \* every call since then was entered without delay
    created,        \* how many ClientSession() the client has constructed
    used,           \* the session the caller's GET was issued on
    gets,           \* how many GETs the caller's running _request call issued
    sleeps,         \* how often the caller's running _request call slept
    resp_status,    \* data.status in the caller's running _request call (0: none yet)
    API_CLASS,      \* the module global API_CLASS: 0 for None, or a client
    ctor            \* the latest call of UniversalisAPI(): the number of
                    \* clients made so far, whether items.json was there,
                    \* what was raised, API_CLASS before the call

\* the registry of clients and the constructor call
ctorvars == <<API_CLASS, ctor>>

gwvars == <<now, api_call_time, max_api_calls, session, callers, pc, op, query,
            batch_i, results, requests, cur_time, elapsed, sleep_time, disp,
            outcome, fresh_return, last_disp, last_gap, last_ok_disp, chain,
            created, used, gets, sleeps, resp_status, ctorvars>>

\* The record under inspection: the object a record constructor returned
\* (or the exception it raised), and the last attribute read from it.
VARIABLES obj, read

\* The call of the record constructor: the class and the data given.
VARIABLE given

\* The calls of _pep8_key_name under inspection: the key given, whether it
\* was on the ignore list, the result, and the result for that result.
VARIABLE pep8

\* The comparison of two entries under inspection: the entries and the
\* results of a == b, a < b and b < a.
VARIABLE cmp
datavars == <<obj, read, given, pep8, cmp>>

(* ------------------------------ helpers -------------------------------- *)
Range(s) == {s[k] : k \in 1..Len(s)}

(* ------------------------- _request: throttle -------------------------- *)
\* Mutant: the interval is computed from 1 instead of 1000 ms.
MaxDiffWrongUnit(m) == 1 \div m

\* max_diff = timedelta(milliseconds=1000 / self.max_api_calls)
MaxDiff(m) ==
    IF m > 0 THEN MsPerSecond \div m ELSE 0 - (MsPerSecond \div (0 - m))

\* 1000 / self.max_api_calls raises ZeroDivisionError
DivisionRaises(m) == m = 0

\* max_api_calls setter: if isinstance(value, int): self._max_api_calls = value
BudgetAfter(old, v) ==
    IF v.kind \in {"int", "bool"} THEN v.num ELSE old

\* if (cur_time - self.api_call_time) < max_diff:
NeedsSleep(e, md) == e < md

\* Mutant: the 100 ms margin is forgotten.
SleepTimeNoMargin(e, md) == md - e

\* sleep_time = (max_diff - (cur_time - self.api_call_time)).total_seconds() + 0.1
SleepTime(e, md) == (md - e) + MarginMs

\* Mutant: every call constructs a session.
EnsureSessionFresh(s) == "created"

\* if self.session is None: self.session = aiohttp.ClientSession()
EnsureSession(s) == IF s = "None" THEN "created" ELSE s

\* Mutant: no status raises.
RaisedErrorNever(status) == "none"

(* ------------------------ _request: the response ----------------------- *)
\* The if / elif chain on data.status: which ConnectionError is raised.
\* "none": nothing is raised.
RaisedError(status) ==
    IF status # 200 THEN "generic"
    ELSE IF status = 400 THEN "invalid_parameters"
    ELSE IF status = 404 THEN "invalid_world_dc_item"
    ELSE "none"

\* Mutant: the time is recorded before the status is looked at.
CallTimeAfterAlways(status, old, t) == t

\* self.api_call_time after the response: assigned only below the raises.
CallTimeAfter(status, old, t) ==
    IF RaisedError(status) = "none" THEN t ELSE old

(* --------------------- get_bulk_current_data: loop --------------------- *)
\* Mutant: one request whatever the length of the list (no loop).
BatchStartsOnce(n) == IF n > 0 THEN {0} ELSE {}

\* range(0, len(query), 100)
BatchStarts(n) == {i \in 0..n : i < n /\ i % BatchSize = 0}

\* the IDs joined into the URL of the request made at loop index i
BatchIds(q, i) == q

(* ------------------------------- URLs ---------------------------------- *)
\* The request URL, kept as its path kind and the comma-joined IDs.
Url(kind, ids) == [path |-> kind, ids |-> ids]

NoOutcome == [kind |-> "none", status |-> 0, url |-> Url("none", <<>>),
              msg |-> "none", value |-> <<>>]

(* ========================= strings and keys ============================ *)
\* A str is kept as the sequence of its characters.
Upper == {"A", "B", "C", "D", "E", "F", "G", "H", "I", "J", "K", "L", "M",
          "N", "O", "P", "Q", "R", "S", "T", "U", "V", "W", "X", "Y", "Z"}

\* Mutant: no character is lowered.
KeepChar(c) == c

\* str.lower() of one character
LowerChar(c) ==
    CASE c = "A" -> "a" [] c = "B" -> "b" [] c = "C" -> "c" [] c = "D" -> "d"
      [] c = "E" -> "e" [] c = "F" -> "f" [] c = "G" -> "g" [] c = "H" -> "h"
      [] c = "I" -> "i" [] c = "J" -> "j" [] c = "K" -> "k" [] c = "L" -> "l"
      [] c = "M" -> "m" [] c = "N" -> "n" [] c = "O" -> "o" [] c = "P" -> "p"
      [] c = "Q" -> "q" [] c = "R" -> "r" [] c = "S" -> "s" [] c = "T" -> "t"
      [] c = "U" -> "u" [] c = "V" -> "v" [] c = "W" -> "w" [] c = "X" -> "x"
      [] c = "Y" -> "y" [] c = "Z" -> "z" [] OTHER -> c

\* str.lower()
LowerStr(s) == [k \in 1..Len(s) |-> LowerChar(s[k])]

\* Mutant: nothing is replaced.
ReplaceNothing(s, old, new) == s

\* str.replace(old, new): every occurrence, left to right, not overlapping
RECURSIVE Replace(_, _, _)
Replace(s, old, new) ==
    IF Len(s) < Len(old) THEN s
    ELSE IF SubSeq(s, 1, Len(old)) = old
         THEN new \o Replace(SubSeq(s, Len(old) + 1, Len(s)), old, new)
         ELSE <<Head(s)>> \o Replace(Tail(s), old, new)

\* PRE_FORMATTED_KEYS, in the order of the dict
PRE_FORMATTED_KEYS ==
    << <<<<"H", "Q">>, <<"_", "h", "q">>>>,
       <<<<"I", "D">>, <<"_", "i", "d">>>>,
       <<<<"N", "Q">>, <<"_", "n", "q">>>> >>

\* IGNORED_KEYS
IGNORED_KEYS == {}

\* for key, value in pre_formatted_keys.items(): key_name.replace(key, value)
RECURSIVE ReplaceAll(_, _)
ReplaceAll(s, table) ==
    IF table = <<>> THEN s
    ELSE ReplaceAll(Replace(s, Head(table)[1], Head(table)[2]), Tail(table))

\* temp: the first character lowered, then "_" + lower before each upper
RECURSIVE SnakeTail(_)
SnakeTail(s) ==
    IF s = <<>> THEN <<>>
    ELSE (IF Head(s) \in Upper THEN <<"_", LowerChar(Head(s))>> ELSE <<Head(s)>>)
         \o SnakeTail(Tail(s))

\* UniversalisAPI._pep8_key_name
Pep8KeyNameWith(key_name, ignored_keys, pre_formatted_keys) ==
    IF key_name \in ignored_keys THEN key_name
    ELSE LET k == ReplaceAll(key_name, pre_formatted_keys)
         IN  IF k = <<>> THEN <<>>
             ELSE <<LowerChar(Head(k))>> \o SnakeTail(Tail(k))

\* UniversalisAPI._pep8_key_name with the default ignore list and table
Pep8KeyName(key_name) ==
    Pep8KeyNameWith(key_name, IGNORED_KEYS, PRE_FORMATTED_KEYS)

\* The raw keys of the responses used as inputs.
K_itemID == <<"i", "t", "e", "m", "I", "D">>
K_worldName == <<"w", "o", "r", "l", "d", "N", "a", "m", "e">>
K_lastUploadTime == <<"l", "a", "s", "t", "U", "p", "l", "o", "a", "d", "T", "i", "m", "e">>
K_hasData == <<"h", "a", "s", "D", "a", "t", "a">>
K_listings == <<"l", "i", "s", "t", "i", "n", "g", "s">>
K_recentHistory == <<"r", "e", "c", "e", "n", "t", "H", "i", "s", "t", "o", "r", "y">>
K_entries == <<"e", "n", "t", "r", "i", "e", "s">>
K_hq == <<"h", "q">>
K_pricePerUnit == <<"p", "r", "i", "c", "e", "P", "e", "r", "U", "n", "i", "t">>
K_lastReviewTime == <<"l", "a", "s", "t", "R", "e", "v", "i", "e", "w", "T", "i", "m", "e">>
K_timestamp == <<"t", "i", "m", "e", "s", "t", "a", "m", "p">>
K_onMannequin == <<"o", "n", "M", "a", "n", "n", "e", "q", "u", "i", "n">>
K_isCrafted == <<"i", "s", "C", "r", "a", "f", "t", "e", "d">>

\* Attribute names of the record classes.
A_item_id == <<"i", "t", "e", "m", "_", "i", "d">>
A_world_name == <<"w", "o", "r", "l", "d", "_", "n", "a", "m", "e">>
A_last_upload_time == <<"l", "a", "s", "t", "_", "u", "p", "l", "o", "a", "d", "_", "t", "i", "m", "e">>
A_last_upload_time_priv == <<"_", "l", "a", "s", "t", "_", "u", "p", "l", "o", "a", "d", "_", "t", "i", "m", "e">>
A_has_data == <<"h", "a", "s", "_", "d", "a", "t", "a">>
A_listings == <<"l", "i", "s", "t", "i", "n", "g", "s">>
A_listings_priv == <<"_", "l", "i", "s", "t", "i", "n", "g", "s">>
A_recent_history == <<"r", "e", "c", "e", "n", "t", "_", "h", "i", "s", "t", "o", "r", "y">>
A_recent_history_priv == <<"_", "r", "e", "c", "e", "n", "t", "_", "h", "i", "s", "t", "o", "r", "y">>
A_entries == <<"e", "n", "t", "r", "i", "e", "s">>
A_entries_priv == <<"_", "e", "n", "t", "r", "i", "e", "s">>
A_hq == <<"h", "q">>
A_price_per_unit == <<"p", "r", "i", "c", "e", "_", "p", "e", "r", "_", "u", "n", "i", "t">>
A_last_review_time == <<"l", "a", "s", "t", "_", "r", "e", "v", "i", "e", "w", "_", "t", "i", "m", "e">>
A_last_review_time_priv == <<"_", "l", "a", "s", "t", "_", "r", "e", "v", "i", "e", "w", "_", "t", "i", "m", "e">>
A_timestamp == <<"t", "i", "m", "e", "s", "t", "a", "m", "p">>
A_timestamp_priv == <<"_", "t", "i", "m", "e", "s", "t", "a", "m", "p">>
A_on_mannequin == <<"o", "n", "_", "m", "a", "n", "n", "e", "q", "u", "i", "n">>
A_is_crafted == <<"i", "s", "_", "c", "r", "a", "f", "t", "e", "d">>
A_raw_priv == <<"_", "r", "a", "w">>
A_universalis_priv == <<"_", "u", "n", "i", "v", "e", "r", "s", "a", "l", "i", "s">>
A_repr_keys_priv == <<"_", "r", "e", "p", "r", "_", "k", "e", "y", "s">>
A_logger_priv == <<"_", "l", "o", "g", "g", "e", "r">>
A_sort_listings == <<"s", "o", "r", "t", "_", "l", "i", "s", "t", "i", "n", "g", "s">>
A_dc_name == <<"d", "c", "_", "n", "a", "m", "e">>

(* ============================== values ================================= *)
\* A Python value: its type, a number and a sequence (the elements of a
\* list, the (key, value) pairs of a dict in order, the (name, value) pairs
\* of an instance __dict__ in order).  A raised exception is kept as a value
\* whose kind is the exception class.
V(k, n, q) == [kind |-> k, num |-> n, seq |-> q]
NoneV == V("None", 0, <<>>)
IntV(n) == V("int", n, <<>>)
BoolV(b) == V("bool", IF b THEN 1 ELSE 0, <<>>)
StrV(code) == V("str", code, <<>>)
\* a datetime, kept as milliseconds since the epoch
DateV(ms) == V("datetime", ms, <<>>)
ListV(es) == V("list", 0, es)
DictV(ps) == V("dict", 0, ps)
ObjV(cls, attrs) == V(cls, 0, attrs)
Raise(e) == V(e, 0, <<>>)
Errors == {"AttributeError", "TypeError"}
IsRaise(v) == v.kind \in Errors
\* a method or class variable found on the class
ClassAttrV == V("classattr", 0, <<>>)
\* API_CLASS, as read by _get_global_api()
ApiClassV == V("UniversalisAPI", 0, <<>>)

\* isinstance(value, int): bool is a subclass of int
IsInt(v) == v.kind \in {"int", "bool"}
\* Mutant: the int is stored as it came.
BoolOfKeep(v) == v

\* bool(value) of an int
BoolOf(v) == BoolV(v.num # 0)

\* dict / __dict__ operations on a sequence of pairs
Has(ps, name) == \E k \in 1..Len(ps) : ps[k][1] = name
Lookup(ps, name) == ps[CHOOSE k \in 1..Len(ps) : ps[k][1] = name][2]
Put(ps, name, v) ==
    IF Has(ps, name)
    THEN [k \in 1..Len(ps) |-> IF ps[k][1] = name THEN <<name, v>> ELSE ps[k]]
    ELSE Append(ps, <<name, v>>)

\* no record built yet / nothing read yet
NoObj == NoneV
NoRead == [name |-> <<>>, val |-> NoneV]
\* no record constructor called yet
NoGiven == [cls |-> "none", data |-> NoneV]
\* _pep8_key_name not called yet
NoPep8 == [calls |-> 0, key_name |-> <<>>, ignored |-> FALSE, temp |-> <<>>,
           again |-> <<>>]
\* no entries compared yet
NoCmp == [a |-> NoneV, b |-> NoneV, eq |-> "none", lt |-> "none", gt |-> "none"]

(* =========================== record classes ============================ *)
Aggregates == {"CurrentData", "HistoryData"}
EntryClasses == {"CurrentDataEntries", "HistoryDataEntries"}

\* the classes that inherit GenericData.__getattribute__
IsGenericData(cls) == cls \in Aggregates

\* the properties of each class
Properties(cls) ==
    CASE cls = "CurrentData" -> {A_last_upload_time, A_listings, A_recent_history}
      [] cls = "HistoryData" -> {A_last_upload_time, A_entries}
      [] cls = "CurrentDataEntries" -> {A_last_review_time}
      [] cls = "HistoryDataEntries" -> {A_timestamp}

\* the attribute a property keeps its value in
Private(name) ==
    CASE name = A_last_upload_time -> A_last_upload_time_priv
      [] name = A_listings -> A_listings_priv
      [] name = A_recent_history -> A_recent_history_priv
      [] name = A_entries -> A_entries_priv
      [] name = A_last_review_time -> A_last_review_time_priv
      [] name = A_timestamp -> A_timestamp_priv

\* names found on the class itself (class variables, methods)
ClassAttrs(cls) ==
    {A_logger_priv} \cup (IF cls = "CurrentData" THEN {A_sort_listings} ELSE {})

\* the property of an entry class that holds its time
TimeProperty(cls) ==
    IF cls = "CurrentDataEntries" THEN A_last_review_time ELSE A_timestamp

\* Reading a name that is no property: the instance __dict__, then the
\* class, else AttributeError -- which GenericData.__getattribute__ (and
\* only it) turns into None.
ReadPlain(o, name) ==
    IF Has(o.seq, name) THEN Lookup(o.seq, name)
    ELSE IF name \in ClassAttrs(o.kind) THEN ClassAttrV
    ELSE IF IsGenericData(o.kind) THEN NoneV
    ELSE Raise("AttributeError")

\* datetime.fromtimestamp succeeds up to MaxTimestamp seconds
CanConvert(secs) == secs >= 0 /\ secs <= MaxTimestamp

\* last_review_time / timestamp setter, for an int: seconds since the epoch
ConvertSeconds(v) == IF CanConvert(v.num) THEN DateV(v.num * 1000) ELSE v

\* last_upload_time setter, for an int: milliseconds since the epoch
ConvertMillis(v) == IF CanConvert(v.num \div 1000) THEN DateV(v.num) ELSE v

(* ------------------------- entries: comparison ------------------------- *)
\* the getter of last_review_time / timestamp of an entry
EntryTime(e) == ReadPlain(e, Private(TimeProperty(e.kind)))

\* x == y on two attribute values: numbers compare by value (True == 1)
PyEq(x, y) ==
    IF IsInt(x) /\ IsInt(y) THEN x.num = y.num ELSE x = y

\* the class whose __eq__ also compares price_per_unit
EqComparesPrice(cls) == cls = "HistoryDataEntries"

\* CurrentDataEntries.__eq__ / HistoryDataEntries.__eq__: "true", "false"
\* or "AttributeError"; `other` is any value
EqR(a, b) ==
    IF b.kind # a.kind THEN "false"
    ELSE LET ha == ReadPlain(a, A_hq)
             hb == ReadPlain(b, A_hq)
             pa == ReadPlain(a, A_price_per_unit)
             pb == ReadPlain(b, A_price_per_unit)
         IN  IF IsRaise(ha) \/ IsRaise(hb) THEN "AttributeError"
             ELSE IF ~PyEq(ha, hb) THEN "false"
             ELSE IF ~EqComparesPrice(a.kind) THEN "true"
             ELSE IF IsRaise(pa) \/ IsRaise(pb) THEN "AttributeError"
             ELSE IF PyEq(pa, pb) THEN "true" ELSE "false"

\* CurrentDataEntries.__lt__ / HistoryDataEntries.__lt__: "true", "false"
\* or "AttributeError"; `other` is any value
LtR(a, b) ==
    LET ha == ReadPlain(a, A_hq)
        hb == ReadPlain(b, A_hq)
        ta == EntryTime(a)
        tb == EntryTime(b)
    IN  IF b.kind # a.kind THEN "false"
        ELSE IF IsRaise(ha) \/ IsRaise(hb) THEN "AttributeError"
        ELSE IF ~PyEq(ha, hb) THEN "false"
        ELSE IF IsRaise(ta) THEN "AttributeError"
        ELSE IF ta.kind # "datetime" THEN "false"
        ELSE IF IsRaise(tb) THEN "AttributeError"
        ELSE IF tb.kind # "datetime" THEN "false"
        ELSE IF ta.num < tb.num THEN "true" ELSE "false"

(* ------------------ sorted(): list.sort of a short list ---------------- *)
\* count_run: the length of the run at the start of s (Len(s) >= 2), k the
\* next index to look at; 0 when a comparison raised
RECURSIVE RunLen(_, _, _)
RunLen(s, k, desc) ==
    IF k > Len(s) THEN k - 1
    ELSE LET c == LtR(s[k], s[k - 1])
         IN  IF c = "AttributeError" THEN 0
             ELSE IF (c = "true") = desc THEN RunLen(s, k + 1, desc)
             ELSE k - 1

Reverse(s) == [k \in 1..Len(s) |-> s[Len(s) + 1 - k]]

\* binarysort: where the pivot goes among s[l..r-1]; 0 when a comparison raised
RECURSIVE BinPos(_, _, _, _)
BinPos(s, pivot, l, r) ==
    IF l >= r THEN l
    ELSE LET p == l + ((r - l) \div 2)
             c == LtR(pivot, s[p])
         IN  IF c = "AttributeError" THEN 0
             ELSE IF c = "true" THEN BinPos(s, pivot, l, p)
             ELSE BinPos(s, pivot, p + 1, r)

\* binarysort: s[1..start-1] is sorted, insert s[start..]; <<0>> on a raise
RECURSIVE BinarySort(_, _)
BinarySort(s, start) ==
    IF start > Len(s) THEN s
    ELSE LET pos == BinPos(s, s[start], 1, start)
         IN  IF pos = 0 THEN <<0>>
             ELSE BinarySort(SubSeq(s, 1, pos - 1) \o <<s[start]>>
                                 \o SubSeq(s, pos, start - 1)
                                 \o SubSeq(s, start + 1, Len(s)),
                             start + 1)

\* sorted(entries): a ListV, or the exception a comparison raised
Sorted(s) ==
    IF Len(s) < 2 THEN ListV(s)
    ELSE LET first == LtR(s[2], s[1])
             n == IF first = "AttributeError" THEN 0
                  ELSE RunLen(s, 3, first = "true")
             run == IF first = "true"
                    THEN Reverse(SubSeq(s, 1, n)) \o SubSeq(s, n + 1, Len(s))
                    ELSE s
             res == IF n = 0 THEN <<0>> ELSE BinarySort(run, n + 1)
         IN  IF res = <<0>> THEN Raise("AttributeError") ELSE ListV(res)


(* --------------------------- building records -------------------------- *)
\* the keys whose int values __init__ turns into bool
BoolKeys(cls) ==
    CASE cls = "CurrentData" -> {A_has_data}
      [] cls = "HistoryData" -> {}
      [] cls = "CurrentDataEntries" -> {A_on_mannequin, A_is_crafted, A_hq}
      [] cls = "HistoryDataEntries" -> {A_hq, A_on_mannequin}

\* the elements a list setter's comprehension keeps: `for entry in value if
\* isinstance(entry, dict)`; iterating a str or a dict yields no dict
DictElements(v) ==
    IF v.kind = "list" THEN SelectSeq(v.seq, LAMBDA e : e.kind = "dict") ELSE <<>>

Iterable(v) == v.kind \in {"list", "dict", "str"}

\* Mutant: a list of fewer than two sales is kept as it came.
AssignedNameShortRaw(cls, key, value) ==
    IF cls = "HistoryData" /\ LowerStr(key) = A_entries /\ value.kind = "list"
       /\ Len(value.seq) <= 1
    THEN A_entries_priv ELSE key

\* HistoryData.__init__: `self.entries = value` for a list of two or more,
\* `setattr(self, key, value)` otherwise; the other classes: setattr
AssignedName(cls, key, value) ==
    IF cls = "HistoryData" /\ LowerStr(key) = A_entries /\ value.kind = "list"
       /\ Len(value.seq) > 1
    THEN A_entries ELSE key

\* The constructors call the setters and the list setters call the entry
\* constructors.
RECURSIVE Build(_, _)
RECURSIVE BuildFrom(_, _)
RECURSIVE ListSetter(_, _, _, _, _)
RECURSIVE SetAttr(_, _, _)
RECURSIVE InitStep(_, _, _)

\* Generic.__init__ (and the _repr_keys of the history classes, whose
\* content only __repr__ reads), then the loop over data.items()
Build(cls, data) ==
    LET base == << <<A_raw_priv, data>>, <<A_universalis_priv, ApiClassV>> >>
        repr == IF cls \in {"HistoryData", "HistoryDataEntries"}
                THEN << <<A_repr_keys_priv, ListV(<<>>)>> >> ELSE <<>>
    IN  BuildFrom(ObjV(cls, base \o repr), data.seq)

\* the listings / recent_history / entries setters
ListSetter(o, name, ecls, sort, v) ==
    IF ~Iterable(v) THEN Raise("TypeError")
    ELSE LET ds == DictElements(v)
             built == [k \in 1..Len(ds) |-> Build(ecls, ds[k])]
             lst == IF sort THEN Sorted(built) ELSE ListV(built)
         IN  IF IsRaise(lst) THEN lst
             ELSE ObjV(o.kind, Put(o.seq, Private(name), lst))

\* the class of the elements of a list property
ElementClass(name) ==
    IF name = A_listings THEN "CurrentDataEntries" ELSE "HistoryDataEntries"

\* setattr(self, key, v): a property setter, or the instance __dict__
SetAttr(o, key, v) ==
    IF key \notin Properties(o.kind) THEN ObjV(o.kind, Put(o.seq, key, v))
    ELSE IF key \in {A_listings, A_recent_history, A_entries}
    THEN ListSetter(o, key, ElementClass(key), key # A_entries, v)
    ELSE IF ~IsInt(v) THEN o
    ELSE ObjV(o.kind, Put(o.seq, Private(key),
                          IF key = A_last_upload_time THEN ConvertMillis(v)
                          ELSE ConvertSeconds(v)))

\* one pass of `for key, value in data.items()` of the four __init__
InitStep(o, rawkey, value) ==
    LET key == Pep8KeyName(rawkey)
    IN  SetAttr(o, AssignedName(o.kind, key, value), IF LowerStr(key) \in BoolKeys(o.kind) /\ IsInt(value)
                        THEN BoolOf(value) ELSE value)

BuildFrom(o, pairs) ==
    IF IsRaise(o) \/ pairs = <<>> THEN o
    ELSE BuildFrom(InitStep(o, Head(pairs)[1], Head(pairs)[2]), Tail(pairs))

(* --------------------------- reading records --------------------------- *)
\* the property getters
PropertyGet(o, name) ==
    IF name = A_entries
    THEN LET e == ReadPlain(o, Private(name))
         IN  IF e.kind = "list" THEN Sorted(e.seq) ELSE Raise("TypeError")
    ELSE ReadPlain(o, Private(name))

\* object.__getattribute__
ObjectGetAttribute(o, name) ==
    IF name \in Properties(o.kind) THEN PropertyGet(o, name) ELSE ReadPlain(o, name)

\* o.name as a reader sees it: GenericData.__getattribute__ returns None
\* where object.__getattribute__ raised AttributeError
GetAttr(o, name) ==
    LET r == ObjectGetAttribute(o, name)
    IN  IF IsGenericData(o.kind) /\ r.kind = "AttributeError" THEN NoneV ELSE r


(* ------------------------------- Init ---------------------------------- *)
\* UniversalisAPI.__init__: session as supplied, api_call_time = now,
\* _max_api_calls = 20.  cs: the coroutines that will use the client.
InitState(cs, n) ==
    /\ now = 0
    /\ api_call_time = 0
    /\ max_api_calls = DefaultMaxApiCalls
    /\ session \in {"None", "supplied"}
    /\ callers = cs
    /\ pc = [p \in Procs |-> "idle"]
    /\ op = [p \in Procs |-> "none"]
    /\ query = [p \in Procs |-> <<>>]
    /\ batch_i = [p \in Procs |-> 0]
    /\ results = [p \in Procs |-> <<>>]
    /\ requests = [p \in Procs |-> <<>>]
    /\ cur_time = [p \in Procs |-> 0]
    /\ elapsed = [p \in Procs |-> 0]
    /\ sleep_time = [p \in Procs |-> 0]
    /\ disp = [p \in Procs |-> NoTime]
    /\ outcome = [p \in Procs |-> NoOutcome]
    /\ fresh_return = [p \in Procs |-> FALSE]
    /\ last_disp = NoTime
    /\ last_gap = NoTime
    /\ last_ok_disp = NoTime
    /\ chain = TRUE
    /\ created = 0
    /\ used = [p \in Procs |-> "None"]
    /\ gets = [p \in Procs |-> 0]
    /\ sleeps = [p \in Procs |-> 0]
    /\ resp_status = [p \in Procs |-> 0]
    /\ API_CLASS = n
    /\ ctor = [n |-> n, file |-> TRUE, raised |-> "none", prev |-> 0]
    /\ obj = NoObj
    /\ read = NoRead
    /\ given = NoGiven
    /\ pep8 = NoPep8
    /\ cmp = NoCmp

\* One client has been constructed: API_CLASS is that client.
InitClient(cs) == InitState(cs, 1)

\* The module has been imported and no client constructed: API_CLASS = None.
InitModule == InitState({}, 0)

(* --------------------------- _request steps ---------------------------- *)
\* Lines 233-240: a session is constructed if there is none, and the GET is
\* issued on self.session now by caller p.
Dispatch(p) ==
    /\ disp' = [disp EXCEPT ![p] = now]
    /\ last_gap' = IF last_disp = NoTime THEN NoTime ELSE now - last_disp
    /\ last_disp' = now
    /\ session' = EnsureSession(session)
    /\ created' = IF EnsureSession(session) # session THEN created + 1 ELSE created
    /\ used' = [used EXCEPT ![p] = EnsureSession(session)]
    /\ gets' = [gets EXCEPT ![p] = IF pc[p] = "sleep" THEN gets[p] + 1 ELSE 1]

\* Lines 227-240 up to the first await: sample the clock, decide the sleep;
\* without a sleep the session is ensured and the GET is issued at once.
\* reqs: the requests the operation made before this one; b2b: the call is
\* entered with no delay after the caller's previous one.
RequestEntry(p, reqs, ids, b2b) ==
    LET e  == now - api_call_time
        md == MaxDiff(max_api_calls)
        sl == NeedsSleep(e, md)
    IN  /\ cur_time' = [cur_time EXCEPT ![p] = now]
        /\ elapsed' = [elapsed EXCEPT ![p] = e]
        /\ sleep_time' = [sleep_time EXCEPT ![p] = IF sl THEN SleepTime(e, md) ELSE 0]
        /\ pc' = [pc EXCEPT ![p] = IF sl THEN "sleep" ELSE "get"]
        /\ requests' = [requests EXCEPT ![p] = Append(reqs, ids)]
        /\ chain' = (chain /\ b2b)
        /\ sleeps' = [sleeps EXCEPT ![p] = IF sl THEN 1 ELSE 0]
        /\ resp_status' = [resp_status EXCEPT ![p] = 0]
        /\ IF sl THEN /\ gets' = [gets EXCEPT ![p] = 0]
                      /\ UNCHANGED <<disp, last_gap, last_disp, session,
                                     created, used>>
                 ELSE Dispatch(p)

\* The facade operation ends: its caller gets `o`; the locals of _request
\* and the loop state are gone (op and query stay: what the caller asked).
Finish(p, o) ==
    /\ pc' = [pc EXCEPT ![p] = "idle"]
    /\ outcome' = [outcome EXCEPT ![p] = o]
    /\ fresh_return' = [fresh_return EXCEPT ![p] = TRUE]
    /\ cur_time' = [cur_time EXCEPT ![p] = 0]
    /\ elapsed' = [elapsed EXCEPT ![p] = 0]
    /\ sleep_time' = [sleep_time EXCEPT ![p] = 0]
    /\ disp' = [disp EXCEPT ![p] = NoTime]
    /\ batch_i' = [batch_i EXCEPT ![p] = 0]
    /\ results' = [results EXCEPT ![p] = <<>>]
    /\ used' = [used EXCEPT ![p] = "None"]
    /\ gets' = [gets EXCEPT ![p] = 0]
    /\ sleeps' = [sleeps EXCEPT ![p] = 0]
    /\ resp_status' = [resp_status EXCEPT ![p] = 0]

\* Line 228 raises before anything else of _request has run: the operation
\* ends with ZeroDivisionError, no request made.
RaiseAtEntry(p, kind, q) ==
    /\ p \in callers
    /\ pc[p] = "idle"
    /\ op' = [op EXCEPT ![p] = kind]
    /\ query' = [query EXCEPT ![p] = q]
    /\ requests' = [requests EXCEPT ![p] = <<>>]
    /\ Finish(p, [NoOutcome EXCEPT !.kind = "error", !.msg = "ZeroDivisionError"])
    /\ UNCHANGED <<now, api_call_time, max_api_calls, session, callers,
                   last_disp, last_gap, last_ok_disp, chain, created, ctorvars>>
    /\ UNCHANGED datavars

\* A facade operation starts: fresh locals.
Start(p, kind, q) ==
    /\ p \in callers
    /\ pc[p] = "idle"
    /\ op' = [op EXCEPT ![p] = kind]
    /\ query' = [query EXCEPT ![p] = q]
    /\ batch_i' = [batch_i EXCEPT ![p] = 0]
    /\ results' = [results EXCEPT ![p] = <<>>]
    /\ outcome' = [outcome EXCEPT ![p] = NoOutcome]

(* ------------------------------ actions -------------------------------- *)
\* get_current_data: build the URL of the item, call _request.
GetCurrentData(p, item) ==
    IF DivisionRaises(max_api_calls) THEN RaiseAtEntry(p, "current", <<item>>)
    ELSE /\ Start(p, "current", <<item>>)
         /\ RequestEntry(p, <<>>, <<item>>, fresh_return[p])
         /\ UNCHANGED <<now, api_call_time, max_api_calls, callers, fresh_return,
                        last_ok_disp, ctorvars>>
         /\ UNCHANGED datavars

\* get_history_data: build the history URL of the item, call _request.
GetHistoryData(p, item) ==
    IF DivisionRaises(max_api_calls) THEN RaiseAtEntry(p, "history", <<item>>)
    ELSE /\ Start(p, "history", <<item>>)
         /\ RequestEntry(p, <<>>, <<item>>, fresh_return[p])
         /\ UNCHANGED <<now, api_call_time, max_api_calls, callers, fresh_return,
                        last_ok_disp, ctorvars>>
         /\ UNCHANGED datavars

\* get_bulk_current_data(items): with an empty list the loop body never
\* runs and the empty results are returned; otherwise the first pass of the
\* loop calls _request.
GetBulkCurrentData(p, items) ==
    IF BatchStarts(Len(items)) = {}
    THEN /\ p \in callers
         /\ pc[p] = "idle"
         /\ op' = [op EXCEPT ![p] = "bulk"]
         /\ query' = [query EXCEPT ![p] = items]
         /\ requests' = [requests EXCEPT ![p] = <<>>]
         /\ Finish(p, [NoOutcome EXCEPT !.kind = "ok"])
         /\ UNCHANGED <<now, api_call_time, max_api_calls, session, callers,
                        last_disp, last_gap, last_ok_disp, chain, created,
                        ctorvars>>
         /\ UNCHANGED datavars
    ELSE IF DivisionRaises(max_api_calls) THEN RaiseAtEntry(p, "bulk", items)
    ELSE /\ Start(p, "bulk", items)
         /\ RequestEntry(p, <<>>, BatchIds(items, 0), fresh_return[p])
         /\ UNCHANGED <<now, api_call_time, max_api_calls, callers,
                        fresh_return, last_ok_disp, ctorvars>>
         /\ UNCHANGED datavars

\* asyncio.sleep returns (never early); the session is ensured, the GET issued.
Wake(p) ==
    /\ pc[p] = "sleep"
    /\ now >= cur_time[p] + sleep_time[p]
    /\ pc' = [pc EXCEPT ![p] = "get"]
    /\ Dispatch(p)
    /\ UNCHANGED <<now, api_call_time, max_api_calls, callers, op, query,
                   batch_i, results, requests, cur_time, elapsed, sleep_time,
                   outcome, fresh_return, last_ok_disp, chain, sleeps,
                   resp_status,
                   ctorvars>>
    /\ UNCHANGED datavars

\* session.get returns a response with `status`: raise, or record the time
\* and go on to read the body.
Response(p, status) ==
    /\ pc[p] = "get"
    /\ api_call_time' = CallTimeAfter(status, api_call_time, now)
    /\ IF RaisedError(status) # "none"
       THEN /\ Finish(p, [kind |-> "error", status |-> status,
                          url |-> Url(op[p], requests[p][Len(requests[p])]),
                          msg |-> RaisedError(status), value |-> <<>>])
       ELSE /\ pc' = [pc EXCEPT ![p] = "json"]
            /\ resp_status' = [resp_status EXCEPT ![p] = status]
            /\ UNCHANGED <<batch_i, results, cur_time, elapsed, sleep_time,
                           disp, outcome, fresh_return, used, gets, sleeps>>
    /\ UNCHANGED <<now, max_api_calls, session, callers, op, query, requests,
                   last_disp, last_gap, last_ok_disp, chain, created, ctorvars>>
    /\ UNCHANGED datavars

\* data.json() returns the body of a single-item query; the facade builds
\* the aggregate of the item and returns it.
BodySingle(p) ==
    /\ pc[p] = "json"
    /\ op[p] # "bulk"
    /\ last_ok_disp' = disp[p]
    /\ chain' = TRUE
    /\ Finish(p, [NoOutcome EXCEPT !.kind = "ok", !.value = query[p]])
    /\ UNCHANGED <<now, api_call_time, max_api_calls, session, callers, op,
                   query, requests, last_disp, last_gap, created,
                   ctorvars>>
    /\ UNCHANGED datavars

\* The item keys of a bulk response: no "items" mapping at all, or the
\* requested IDs without the omitted ones, one key per ID.
BulkKeys(ids, hasItems, omit) ==
    IF hasItems THEN SelectSeq(ids, LAMBDA x : x \notin omit) ELSE <<>>

\* data.json() returns the body of a bulk query: extend results with one
\* aggregate per value of res["items"], then run the next pass of the loop
\* (calling _request at once) or return results.
BodyBulk(p, hasItems, omit) ==
    /\ pc[p] = "json"
    /\ op[p] = "bulk"
    /\ last_ok_disp' = disp[p]
    /\ LET got  == BulkKeys(requests[p][Len(requests[p])], hasItems, omit)
           res  == results[p] \o got
           next == batch_i[p] + BatchSize
       IN  IF next \in BatchStarts(Len(query[p]))
           THEN /\ results' = [results EXCEPT ![p] = res]
                /\ batch_i' = [batch_i EXCEPT ![p] = next]
                /\ RequestEntry(p, requests[p], BatchIds(query[p], next), TRUE)
                /\ UNCHANGED <<outcome, fresh_return>>
           ELSE /\ chain' = TRUE
                /\ Finish(p, [NoOutcome EXCEPT !.kind = "ok", !.value = res])
                /\ UNCHANGED <<session, requests, last_disp, last_gap, created>>
    /\ UNCHANGED <<now, api_call_time, max_api_calls, callers, op, query,
                   ctorvars>>
    /\ UNCHANGED datavars

\* Mutant: a cancelled call records the time.
CancelledCallTimeNow(old, t) == t

\* api_call_time after a call was cancelled at t: no line assigns it
CancelledCallTime(old, t) == old

\* The task of caller p is cancelled while suspended in asyncio.sleep, in
\* session.get or in data.json(): CancelledError is raised at the await and
\* leaves _request and the facade operation.
Cancel(p) ==
    /\ pc[p] \in {"sleep", "get", "json"}
    /\ api_call_time' = CancelledCallTime(api_call_time, now)
    /\ Finish(p, [NoOutcome EXCEPT !.kind = "cancelled"])
    /\ UNCHANGED <<now, max_api_calls, session, callers, op, query, requests,
                   last_disp, last_gap, last_ok_disp, chain, created,
                   ctorvars>>
    /\ UNCHANGED datavars

\* Time passes.
Tick ==
    /\ now + TickStep <= MaxTime
    /\ now' = now + TickStep
    /\ fresh_return' = [p \in Procs |-> FALSE]
    /\ UNCHANGED <<api_call_time, max_api_calls, session, callers, pc, op,
                   query, batch_i, results, requests, cur_time, elapsed,
                   sleep_time, disp, outcome, last_disp, last_gap,
                   last_ok_disp, chain, created, used, gets, sleeps,
                   resp_status,
                   ctorvars>>
    /\ UNCHANGED datavars

(* --------------------------- max_api_calls ----------------------------- *)
\* api.max_api_calls = v, by the holder of the client
SetMaxApiCalls(v) ==
    /\ max_api_calls' = BudgetAfter(max_api_calls, v)
    /\ UNCHANGED <<now, api_call_time, session, callers, pc, op, query,
                   batch_i, results, requests, cur_time, elapsed, sleep_time,
                   disp, outcome, fresh_return, last_disp, last_gap, last_ok_disp, chain,
                   created, used, gets, sleeps, resp_status, ctorvars>>
    /\ UNCHANGED datavars

\* The values assigned: zero, a negative and a positive integer, False, a
\* str and None.
BudgetValues == {IntV(0), IntV(0 - 5), IntV(50), BoolV(FALSE), StrV(1), NoneV}

\* The budget is assigned while one caller makes single-item calls.
NextBudget ==
    \/ \E v \in BudgetValues : SetMaxApiCalls(v)
    \/ \E p \in Procs :
          \/ GetCurrentData(p, 1)
          \/ Wake(p)
          \/ Response(p, 200)
          \/ BodySingle(p)
    \/ Tick

(* ----------------------------- __init__ -------------------------------- *)
\* _load_json, lines 192-197: items.json is read, or FileNotFoundError.
LoadJson(file_exists) == IF file_exists THEN "none" ELSE "FileNotFoundError"

\* Mutant: the registry is assigned before the file is loaded.
RegistryAfterAlways(raised, old, new) == new

\* Lines 140-143: API_CLASS = self is reached only when _load_json returned.
RegistryAfter(raised, old, new) ==
    IF raised = "none" THEN new ELSE old

\* UniversalisAPI(session): the fields are set, the file is loaded, the
\* registry is assigned.  When _load_json raises no client is returned and
\* the caller keeps the client it had.
Construct(sess, file_exists) ==
    LET id == ctor.n + 1
        raised == LoadJson(file_exists)
    IN  /\ ctor.n < MaxClients
        /\ \A p \in Procs : pc[p] = "idle"
        /\ ctor' = [n |-> id, file |-> file_exists, raised |-> raised,
                    prev |-> API_CLASS]
        /\ API_CLASS' = RegistryAfter(raised, API_CLASS, id)
        /\ IF raised = "none"
           THEN /\ session' = sess
                /\ api_call_time' = now
                /\ max_api_calls' = DefaultMaxApiCalls
                /\ created' = 0
           ELSE UNCHANGED <<session, api_call_time, max_api_calls, created>>
        /\ UNCHANGED <<now, callers, pc, op, query, batch_i, results, requests,
                       cur_time, elapsed, sleep_time, disp, outcome,
                       fresh_return, last_disp, last_gap, last_ok_disp, chain,
                       used, gets, sleeps, resp_status>>
        /\ UNCHANGED datavars

NextClient ==
    \/ \E sess \in {"None", "supplied"}, file_exists \in BOOLEAN :
            Construct(sess, file_exists)
    \/ Tick

\* The item lists given to get_bulk_current_data: IDs 1..n.
Ids(n) == [k \in 1..n |-> k]
BulkLens == {0, 1, BatchSize, BatchSize + 1, MaxItems}
Omits == {{}, {1}}

\* Every facade operation, used by one caller.
Next ==
    \/ \E p \in Procs : GetCurrentData(p, 1)
    \/ \E p \in Procs : GetHistoryData(p, 1)
    \/ \E p \in Procs : \E n \in BulkLens : GetBulkCurrentData(p, Ids(n))
    \/ \E p \in Procs : Wake(p)
    \/ \E p \in Procs : \E s \in Statuses : Response(p, s)
    \/ \E p \in Procs : BodySingle(p)
    \/ \E p \in Procs : \E h \in BOOLEAN : \E o \in Omits : BodyBulk(p, h, o)
    \/ Tick

\* Two coroutines calling get_current_data on the same client; their tasks
\* may be cancelled, and a response is a success or a failure.
NextConc ==
    \/ \E p \in Procs : GetCurrentData(p, 1)
    \/ \E p \in Procs : Wake(p)
    \/ \E p \in Procs : \E s \in {200, 500} : Response(p, s)
    \/ \E p \in Procs : BodySingle(p)
    \/ \E p \in Procs : Cancel(p)
    \/ Tick

(* --------------------------- record actions ---------------------------- *)
\* cls(data=data): the constructor returns a record or raises; one record
\* is built and then read
BuildRecord(cls, data) ==
    /\ obj = NoObj
    /\ obj' = Build(cls, data)
    /\ read' = NoRead
    /\ given' = [cls |-> cls, data |-> data]
    /\ UNCHANGED <<gwvars, pep8, cmp>>

\* value = obj.name, by the holder of a record
ReadAttr(name) ==
    /\ obj.kind \in Aggregates \cup EntryClasses
    /\ read' = [name |-> name, val |-> GetAttr(obj, name)]
    /\ UNCHANGED <<gwvars, obj, given, pep8, cmp>>

\* the pairs of ps at the positions idx, in the order of ps
RECURSIVE Sub(_, _, _)
Sub(ps, idx, k) ==
    IF k > Len(ps) THEN <<>>
    ELSE (IF k \in idx THEN <<ps[k]>> ELSE <<>>) \o Sub(ps, idx, k + 1)

SubDicts(ps) == {DictV(Sub(ps, idx, 1)) : idx \in SUBSET (1..Len(ps))}

\* Values a response carries for a boolean field, a time field in seconds
\* (the last int is one datetime.fromtimestamp rejects, the str is "bad")
\* and a time field in milliseconds.
HqValues == {BoolV(TRUE), BoolV(FALSE), IntV(1), IntV(0), StrV(3)}
TimeValues == {IntV(t) : t \in 1..MaxTimestamp + 1} \cup {StrV(1)}
UploadValues == {IntV(2000), IntV((MaxTimestamp + 1) * 1000), StrV(1)}

\* the raw key of the time of an entry
TimeKey(cls) == IF cls = "CurrentDataEntries" THEN K_lastReviewTime ELSE K_timestamp

\* the dicts that differ from DictV(ps) in the value of one key
Vary(ps, key, values) == {DictV(Put(ps, key, v)) : v \in values}

\* The dicts of one listing / one sale: any of the keys may be missing
\* (worldName is missing on a single-world query), any field may carry any
\* of its values.
EntryDicts(cls) ==
    LET base == << <<K_hq, BoolV(TRUE)>>, <<K_pricePerUnit, IntV(5)>>,
                   <<K_worldName, StrV(2)>>, <<TimeKey(cls), IntV(1)>> >>
    IN  SubDicts(base)
        \cup Vary(base, K_hq, HqValues)
        \cup Vary(base, TimeKey(cls), TimeValues)
        \cup Vary(base, K_onMannequin, HqValues)
        \cup (IF cls = "CurrentDataEntries"
              THEN Vary(base, K_isCrafted, HqValues) ELSE {})

\* The elements of the lists of listings / sales: entries of either quality
\* with early and late times, with a time that is not converted, with a
\* time that is no int, and an element that is no mapping.
Elements(cls) ==
    {DictV(<< <<K_hq, h>>, <<TimeKey(cls), t>> >>)
        : <<h, t>> \in {BoolV(TRUE), BoolV(FALSE)} \X {IntV(1), IntV(2)}}
    \cup {DictV(<< <<K_hq, IntV(1)>>, <<K_pricePerUnit, IntV(5)>>,
                   <<TimeKey(cls), IntV(1)>> >>),
          DictV(<< <<K_hq, BoolV(TRUE)>>, <<TimeKey(cls), IntV(MaxTimestamp + 1)>> >>),
          DictV(<< <<K_hq, BoolV(TRUE)>>, <<TimeKey(cls), StrV(1)>> >>),
          IntV(0)}

\* Short lists of listings / sales.
EntryLists(cls) ==
    {ListV(<<>>)}
    \cup {ListV(<<x>>) : x \in Elements(cls)}
    \cup {ListV(<<x, y>>) : <<x, y>> \in Elements(cls) \X Elements(cls)}
    \cup {ListV(<<x, IntV(0), y>>)
            : <<x, y>> \in {e \in Elements(cls) : e.kind = "dict" /\ Len(e.seq) = 2}
                           \X {e \in Elements(cls) : Len(e.seq) = 3}}

\* The bodies of a current-data / history response.
AggregateDicts(cls) ==
    LET ecls == IF cls = "CurrentData" THEN "CurrentDataEntries"
                ELSE "HistoryDataEntries"
        l0   == ListV(<<DictV(<< <<K_hq, BoolV(TRUE)>>, <<TimeKey(ecls), IntV(1)>> >>)>>)
        head == << <<K_itemID, IntV(1)>>, <<K_worldName, StrV(2)>>,
                   <<K_lastUploadTime, IntV(2000)>> >>
        base == IF cls = "CurrentData"
                THEN head \o << <<K_hasData, IntV(1)>>, <<K_listings, l0>>,
                                <<K_recentHistory, ListV(<<>>)>> >>
                ELSE head \o << <<K_entries, l0>> >>
    IN  SubDicts(base)
        \cup Vary(base, K_lastUploadTime, UploadValues)
        \cup (IF cls = "CurrentData"
              THEN Vary(base, K_hasData, HqValues)
                   \cup Vary(base, K_listings, EntryLists("CurrentDataEntries"))
                   \cup Vary(base, K_recentHistory, EntryLists("HistoryDataEntries"))
              ELSE Vary(base, K_entries, EntryLists("HistoryDataEntries")))

RecordDicts(cls) ==
    IF cls \in Aggregates THEN AggregateDicts(cls) ELSE EntryDicts(cls)

\* The attributes a holder reads.
ReadNames ==
    {A_item_id, A_world_name, A_dc_name, A_last_upload_time, A_has_data,
     A_listings, A_recent_history, A_entries, A_hq, A_price_per_unit,
     A_last_review_time, A_timestamp, A_on_mannequin, A_is_crafted}

\* Records are built from response bodies and read.
NextData ==
    \/ \E cls \in Aggregates \cup EntryClasses :
           \E d \in RecordDicts(cls) : BuildRecord(cls, d)
    \/ \E name \in ReadNames : ReadAttr(name)

(* ---------------------------- sorting actions -------------------------- *)
\* The listings of a response, numbered by pricePerUnit in the order of the
\* response: of both qualities, with equal and with different review times.
SortPool == {<<TRUE, 1>>, <<TRUE, 2>>, <<FALSE, 1>>}
ListingsOf(f) ==
    ListV([k \in DOMAIN f |->
             DictV(<< <<K_hq, BoolV(f[k][1])>>,
                      <<K_lastReviewTime, IntV(f[k][2])>>,
                      <<K_pricePerUnit, IntV(k)>> >>)])
SortLists == {ListingsOf(f) : f \in UNION {[1..n -> SortPool] : n \in 0..MaxListLen}}

\* A current aggregate is built from the listings alone, and they are read.
NextSort ==
    \/ \E l \in SortLists : BuildRecord("CurrentData", DictV(<< <<K_listings, l>> >>))
    \/ ReadAttr(A_listings)

(* -------------------------- comparison actions ------------------------- *)
\* a == b, a < b and b < a, by the holder of two entries
Compare(a, b) ==
    /\ cmp = NoCmp
    /\ ~IsRaise(a) /\ ~IsRaise(b)
    /\ cmp' = [a |-> a, b |-> b, eq |-> EqR(a, b), lt |-> LtR(a, b),
               gt |-> LtR(b, a)]
    /\ UNCHANGED <<gwvars, obj, read, given, pep8>>

\* The entries compared: of both qualities, early and late, with a time
\* that is not converted, with a time that is no int, with prices that
\* differ, and with fields missing.
CompareDicts(cls) ==
    {e \in Elements(cls) : e.kind = "dict"}
    \cup {DictV(<< <<K_hq, h>>, <<K_pricePerUnit, IntV(n)>>, <<TimeKey(cls), IntV(t)>> >>)
            : <<h, n, t>> \in {BoolV(TRUE), BoolV(FALSE)} \X {5, 6} \X {1, 2}}
    \cup {DictV(<< <<K_hq, BoolV(TRUE)>>, <<K_pricePerUnit, IntV(5)>> >>),
          DictV(<< <<K_pricePerUnit, IntV(5)>>, <<TimeKey(cls), IntV(1)>> >>)}

\* Two entries are built and compared.
NextCompare ==
    \E cls, ocls \in EntryClasses :
        \E d \in CompareDicts(cls), e \in CompareDicts(ocls) :
            Compare(Build(cls, d), Build(ocls, e))

(* -------------------------- normaliser actions ------------------------- *)
\* _pep8_key_name(key_name=k), with the default ignore list or with one
\* that holds k
Pep8Call(k, ign) ==
    /\ pep8.calls = 0
    /\ pep8' = [calls |-> 1, key_name |-> k, ignored |-> ign,
                temp |-> Pep8KeyNameWith(k, IF ign THEN {k} ELSE IGNORED_KEYS,
                                         PRE_FORMATTED_KEYS),
                again |-> <<>>]
    /\ UNCHANGED <<gwvars, obj, read, given, cmp>>

\* _pep8_key_name applied to the result of the call before
Pep8Again ==
    /\ pep8.calls = 1
    /\ pep8' = [pep8 EXCEPT !.calls = 2, !.again = Pep8KeyName(pep8.temp)]
    /\ UNCHANGED <<gwvars, obj, read, given, cmp>>

\* The raw keys given: every string of up to MaxKeyLen characters of
\* KeyChars, the keys of the responses and three more.
KeyChars == {"H", "Q", "I", "D", "N", "a", "_"}
RawKeys ==
    UNION {[1..n -> KeyChars] : n \in 0..MaxKeyLen}
    \cup {K_itemID, K_worldName, K_lastUploadTime, K_hasData, K_recentHistory,
          K_pricePerUnit, K_lastReviewTime, K_onMannequin, K_isCrafted,
          <<"I", "t", "e", "m", "I", "D">>, <<"A", "B", "C">>,
          <<"n", "q", "S", "a", "l", "e", "V", "e", "l", "o", "c", "i", "t", "y">>}

\* Keys are normalised, and the results normalised again.
NextKeys ==
    \/ \E k \in RawKeys : \E ign \in BOOLEAN : Pep8Call(k, ign)
    \/ Pep8Again

vars == <<gwvars, datavars>>

Init == InitClient({1})
InitConc == InitClient({1, 2})
InitData == InitClient({})

Spec == Init /\ [][Next]_vars
SpecConc == InitConc /\ [][NextConc]_vars
SpecData == InitData /\ [][NextData]_vars
SpecClient == InitModule /\ [][NextClient]_vars
SpecCompare == InitData /\ [][NextCompare]_vars
SpecSort == InitData /\ [][NextSort]_vars
SpecBudget == Init /\ [][NextBudget]_vars
SpecKeys == InitData /\ [][NextKeys]_vars

(* ======================= the request gateway =========================== *)
\* min_interval of the claims, written out: 1000 ms / max_calls_per_second.
MinInterval == 1000 \div max_api_calls

\* C1: under any interleaving of concurrent callers of _request, no two
\* requests are dispatched less than min_interval apart (the throttle check
\* and the update of last_call_time behave as one serialized step).
C1_NoTwoDispatchesWithinMinInterval ==
    last_gap # NoTime => last_gap >= MinInterval

\* C2: a call whose elapsed time sampled on entry is below min_interval asks
\* for a sleep of exactly (min_interval - elapsed) + 100 ms and issues its
\* GET only after it; a call with elapsed >= min_interval asks for no sleep
\* and issues its GET at the time it entered.
C2_ThrottleWait ==
    \A p \in Procs :
        /\ pc[p] = "sleep" =>
            /\ elapsed[p] < MinInterval
            /\ sleep_time[p] = (MinInterval - elapsed[p]) + 100
            /\ disp[p] = NoTime
        /\ pc[p] \in {"get", "json"} =>
            IF elapsed[p] < MinInterval
            THEN /\ sleep_time[p] = (MinInterval - elapsed[p]) + 100
                 /\ disp[p] >= cur_time[p] + sleep_time[p]
            ELSE /\ sleep_time[p] = 0
                 /\ disp[p] = cur_time[p]

\* C2 witness: a call that entered 25 ms after last_call_time has slept its
\* 125 ms and issued its GET.
C2_Witness ==
    \E p \in Procs :
        pc[p] = "get" /\ elapsed[p] = 25 /\ sleep_time[p] = 125 /\ disp[p] # NoTime

\* C3 as stated: with the default budget of 20, two consecutive successful
\* calls made one after another by a single caller with no delay between
\* them are dispatched at least 150 ms apart.
C3_ConsecutiveDispatches150 ==
    \A p \in Procs :
        (pc[p] = "json" /\ last_ok_disp # NoTime /\ chain)
            => disp[p] - last_ok_disp >= 150

\* C3 amended: two consecutive successful calls of a single caller are
\* dispatched at least 50 ms (min_interval) apart, and at least 150 ms apart
\* whenever the later call entered the gateway less than 50 ms after
\* last_call_time was recorded.
C3_ConsecutiveDispatchesAmended ==
    \A p \in Procs :
        (pc[p] = "json" /\ last_ok_disp # NoTime) =>
            /\ max_api_calls = 20
            /\ disp[p] - last_ok_disp >= 50
            /\ (elapsed[p] < 50 => disp[p] - last_ok_disp >= 150)

\* C3 witness: a second successful call, entered with no delay and less than
\* 50 ms after the first one's response, has been dispatched and answered.
C3_Witness ==
    \E p \in Procs :
        /\ pc[p] = "json" /\ last_ok_disp # NoTime /\ chain
        /\ elapsed[p] < 50 /\ disp[p] - last_ok_disp >= 150

\* C4: last_call_time is assigned only by a call that received status 200,
\* and a call that ends with a non-200 status leaves it as it was.
C4_CallTimeOnlyOn200 ==
    [][ /\ (api_call_time' # api_call_time) =>
            \E p \in Procs : /\ pc[p] = "get" /\ pc'[p] = "json"
                             /\ api_call_time' = now
        /\ \A p \in Procs :
            (pc[p] = "get" /\ pc'[p] = "idle" /\ outcome'[p].status # 200)
                => api_call_time' = api_call_time ]_vars

\* C4 witness: a call has just failed at a time later than the recorded
\* last_call_time of an earlier successful call.
C4_Witness ==
    \E p \in Procs :
        /\ outcome[p].kind = "error" /\ fresh_return[p]
        /\ api_call_time > 0 /\ api_call_time < now

\* The error the claims expect for a status.
ExpectedError(status) ==
    CASE status = 400 -> "invalid_parameters"
      [] status = 404 -> "invalid_world_dc_item"
      [] OTHER -> "generic"

\* C5: every non-200 response fails with an error carrying the status and
\* the URL and classified by status (400: invalid parameters, 404: unknown
\* world/datacenter/item, any other: generic); a 200 response never fails.
C5_ErrorClassifiedByStatus ==
    \A p \in Procs :
        outcome[p].kind = "error" =>
            /\ outcome[p].status # 200
            /\ outcome[p].url.path = op[p]
            /\ outcome[p].msg = ExpectedError(outcome[p].status)

(* ===================== get_bulk_current_data =========================== *)
\* A finished bulk query that raised nothing.
BulkDone(p) == pc[p] = "idle" /\ op[p] = "bulk" /\ outcome[p].kind = "ok"

\* C6: the requested IDs go out in consecutive batches of at most 100: the
\* k-th request carries IDs 100(k-1)+1 .. min(100k, n) of the list, so no
\* URL carries more than 100 IDs and no ID is carried by two requests.
C6_BatchesOfAtMost100 ==
    \A p \in Procs :
        op[p] = "bulk" =>
            \A k \in 1..Len(requests[p]) :
                LET lo == 100 * (k - 1) + 1
                    hi == IF 100 * k < Len(query[p]) THEN 100 * k ELSE Len(query[p])
                IN  /\ Len(requests[p][k]) <= 100
                    /\ requests[p][k] = SubSeq(query[p], lo, hi)

\* C7: a bulk query of n IDs whose requests all succeed issues exactly
\* ceil(n / 100) requests.
C7_RequestCount ==
    \A p \in Procs :
        BulkDone(p) => Len(requests[p]) = (Len(query[p]) + 99) \div 100

\* C7 witness: a bulk query of 150 IDs has finished after two requests.
C7_Witness ==
    \E p \in Procs :
        BulkDone(p) /\ Len(query[p]) = 150 /\ Len(requests[p]) = 2

\* C8: the returned list holds one aggregate per returned item key: no item
\* ID is represented by more than one aggregate.
C8_OneAggregatePerKey ==
    \A p \in Procs :
        BulkDone(p) =>
            Cardinality(Range(outcome[p].value)) = Len(outcome[p].value)

\* C9: when the responses leave out some requested ID, no error is raised
\* and the result has fewer aggregates than requested IDs, each for a key
\* that was asked for.
C9_OmittedIdsShortenResult ==
    \A p \in Procs :
        (BulkDone(p) /\ Range(outcome[p].value) # Range(query[p])) =>
            /\ Len(outcome[p].value) < Len(query[p])
            /\ Range(outcome[p].value) \subseteq Range(query[p])

(* ============================ the records ============================== *)
\* The response the record was built from carried a key for the attribute.
Populated(o, name) ==
    \E k \in 1..Len(Lookup(o.seq, A_raw_priv).seq) :
        Pep8KeyName(Lookup(o.seq, A_raw_priv).seq[k][1]) = name

\* C10: on every record type (current aggregate, history aggregate, listing
\* entry, history entry) reading an attribute that the response did not
\* populate yields None and never an error.
C10_AbsentAttributeIsNone ==
    (read.name # <<>> /\ ~Populated(obj, read.name)) => read.val = NoneV

\* The review time of a built entry in milliseconds: the converted time, or
\* the raw seconds when the conversion failed.
EffectiveTime(e) ==
    LET t == EntryTime(e)
    IN  IF t.kind = "datetime" THEN t.num ELSE t.num * 1000

HasTime(e) == EntryTime(e).kind \in {"datetime", "int"}

\* C11: the listings accessor of a current aggregate returns the built
\* entries in ascending order of effective review time: no entry is followed
\* by one with an earlier review time, also when hq and non-hq entries are
\* mixed or a review time was not converted.
C11_ListingsAscendingByReviewTime ==
    (obj.kind = "CurrentData" /\ read.name = A_listings /\ read.val.kind = "list") =>
        \A k \in 1..Len(read.val.seq) - 1 :
            (HasTime(read.val.seq[k]) /\ HasTime(read.val.seq[k + 1])) =>
                EffectiveTime(read.val.seq[k]) <= EffectiveTime(read.val.seq[k + 1])

\* The raw dict the record was built from.
RawOf(o) == Lookup(o.seq, A_raw_priv).seq

\* What the claims expect a time accessor to return for the raw value v,
\* unit: the milliseconds per unit of v.
ExpectedTime(v, unit) ==
    IF v.kind = "int" /\ (v.num * unit) \div 1000 <= MaxTimestamp
    THEN DateV(v.num * unit)
    ELSE v

\* C12: a timestamp field never makes a build fail and never loses the
\* input: the time accessor of an entry returns the int converted as seconds
\* since the epoch, the accessor of an aggregate the int converted as
\* milliseconds, an int that cannot be converted as it came, and a value that
\* is no int unchanged.
C12_TimestampsKeptOrConverted ==
    /\ ~IsRaise(obj)
    /\ (obj.kind \in EntryClasses /\ read.name = TimeProperty(obj.kind)
            /\ Has(RawOf(obj), TimeKey(obj.kind))) =>
           read.val = ExpectedTime(Lookup(RawOf(obj), TimeKey(obj.kind)), 1000)
    /\ (obj.kind \in Aggregates /\ read.name = A_last_upload_time
            /\ Has(RawOf(obj), K_lastUploadTime)) =>
           read.val = ExpectedTime(Lookup(RawOf(obj), K_lastUploadTime), 1)

(* ========================= the key normaliser ========================== *)
\* C13: with the default ignore list and substitution table, normalising
\* the normaliser's own output returns it unchanged, for every raw key, and
\* the result is a function of the key alone.
C13_NormalizerIdempotent ==
    (pep8.calls >= 1 /\ ~pep8.ignored) =>
        /\ pep8.temp = Pep8KeyName(pep8.key_name)
        /\ pep8.calls = 2 => pep8.again = pep8.temp

\* C13 witness: "ItemID" was normalised to "item_id", and that again.
C13_Witness ==
    /\ pep8.calls = 2 /\ ~pep8.ignored
    /\ pep8.key_name = <<"I", "t", "e", "m", "I", "D">>
    /\ pep8.temp = <<"i", "t", "e", "m", "_", "i", "d">>
    /\ pep8.again = pep8.temp

\* how often the character c occurs in s
Count(s, c) == Cardinality({i \in 1..Len(s) : s[i] = c})
\* the number of uppercase letters of s
Uppers(s) == Cardinality({i \in 1..Len(s) : s[i] \in Upper})
\* the substrings the claims name: "HQ", "ID", "NQ"
Substituted == {<<"H", "Q">>, <<"I", "D">>, <<"N", "Q">>}
\* the number of their occurrences in s (no two can overlap)
Occurrences(s) ==
    Cardinality({i \in 1..Len(s) - 1 : SubSeq(s, i, i + 1) \in Substituted})
\* s without its underscores
Strip(s) == SelectSeq(s, LAMBDA c : c # "_")

\* C14: a key on the ignore list is returned unchanged; otherwise every
\* occurrence of "HQ", "ID", "NQ" is replaced (by "_hq", "_id", "_nq") before
\* case folding, the first character is lowered with no underscore added and
\* every other uppercase letter becomes an underscore and its lowercase
\* form, one underscore per letter: the result has no uppercase letter, the
\* letters of the key lowered in their order, and one more underscore per
\* substituted pair and per other uppercase letter past the first character;
\* "ItemID" gives "item_id", "HQ" gives "_hq", "ABC" gives "a_b_c".
C14_NormalizerSteps ==
    pep8.calls >= 1 =>
        LET k == pep8.key_name
            t == pep8.temp
            first == IF k # <<>> /\ Head(k) \in Upper
                        /\ (Len(k) < 2 \/ SubSeq(k, 1, 2) \notin Substituted)
                     THEN 1 ELSE 0
        IN  IF pep8.ignored THEN t = k
            ELSE /\ Uppers(t) = 0
                 /\ Strip(t) = LowerStr(Strip(k))
                 /\ Count(t, "_") = Count(k, "_") + Uppers(k) - Occurrences(k) - first
                 /\ k = <<"I", "t", "e", "m", "I", "D">> =>
                        t = <<"i", "t", "e", "m", "_", "i", "d">>
                 /\ k = <<"H", "Q">> => t = <<"_", "h", "q">>
                 /\ k = <<"A", "B", "C">> => t = <<"a", "_", "b", "_", "c">>

\* C14 witness: a key with a substituted pair after an uppercase letter was
\* normalised.
C14_Witness ==
    /\ pep8.calls = 1 /\ ~pep8.ignored
    /\ pep8.key_name = <<"H", "H", "Q">>
    /\ pep8.temp = <<"h", "_", "h", "q">>

(* ========================== record fields ============================== *)
\* The value the response carried for the attribute.
RawValue(o, name) ==
    RawOf(o)[CHOOSE k \in 1..Len(RawOf(o)) : Pep8KeyName(RawOf(o)[k][1]) = name][2]

\* The boolean fields the claims name for each record type.
BooleanFields(cls) ==
    CASE cls = "CurrentDataEntries" -> {A_hq, A_is_crafted, A_on_mannequin}
      [] cls = "HistoryDataEntries" -> {A_hq, A_on_mannequin}
      [] cls = "CurrentData" -> {A_has_data}
      [] OTHER -> {}

\* C15: for the boolean fields of a record (hq, is_crafted, on_mannequin on
\* a listing entry; hq, on_mannequin on a history entry; has_data on a
\* current aggregate) an incoming int v is stored as the boolean v != 0, and
\* an incoming value of another type is stored unchanged.
C15_BooleanFields ==
    (read.name \in BooleanFields(obj.kind) /\ Populated(obj, read.name)) =>
        LET v == RawValue(obj, read.name)
        IN  read.val = IF v.kind = "int" THEN BoolV(v.num # 0) ELSE v

\* C15 witness: hasData 0 was read back as False from a current aggregate.
C15_Witness ==
    /\ obj.kind = "CurrentData" /\ read.name = A_has_data
    /\ Populated(obj, A_has_data) /\ RawValue(obj, A_has_data) = IntV(0)
    /\ read.val = BoolV(FALSE)

\* The list keys each aggregate gives to a list setter.
ListKeys(cls) ==
    IF cls = "CurrentData" THEN {K_listings, K_recentHistory}
    ELSE IF cls = "HistoryData" THEN {K_entries} ELSE {}

\* C16: when a listings, recent_history or entries list holds elements that
\* are no mappings, building the aggregate raises no error and the stored
\* list holds exactly one built entry per mapping element of the input.
C16_NonMappingsDropped ==
    \A key \in ListKeys(given.cls) :
        (/\ Has(given.data.seq, key)
         /\ Lookup(given.data.seq, key).kind = "list"
         /\ \E k \in 1..Len(Lookup(given.data.seq, key).seq) :
                Lookup(given.data.seq, key).seq[k].kind # "dict") =>
            /\ ~IsRaise(obj)
            /\ Len(ReadPlain(obj, Private(Pep8KeyName(key))).seq)
                 = Len(SelectSeq(Lookup(given.data.seq, key).seq,
                                 LAMBDA e : e.kind = "dict"))

(* ==================== cancellation, session, retries =================== *)
\* C17: a caller cancelled while suspended in the throttle wait or in the
\* network call leaves last_call_time as it was, and a caller arriving
\* computes its throttle wait from that value.
C17_CancelKeepsCallTime ==
    [][ /\ \A p \in Procs :
            (pc[p] \in {"sleep", "get"} /\ pc'[p] = "idle"
                /\ outcome'[p].kind = "cancelled") =>
                api_call_time' = api_call_time
        /\ \A q \in Procs :
            (pc[q] = "idle" /\ pc'[q] # "idle") =>
                /\ elapsed'[q] = now - api_call_time
                /\ sleep_time'[q] = IF elapsed'[q] < MinInterval
                                    THEN (MinInterval - elapsed'[q]) + 100 ELSE 0 ]_vars

\* C17 as stated: after the cancellation last_call_time equals the value
\* it had when the cancelled caller entered the gateway (the entry time less
\* the elapsed time that caller computed).
C17_CallTimeAsAtEntry ==
    [][ \A p \in Procs :
            (pc[p] \in {"sleep", "get"} /\ pc'[p] = "idle"
                /\ outcome'[p].kind = "cancelled") =>
                api_call_time' = cur_time[p] - elapsed[p] ]_vars

\* C17 witness: one caller was just cancelled after a call had set
\* last_call_time, while the other waits at the throttle.
C17_Witness ==
    \E p, q \in Procs :
        /\ outcome[p].kind = "cancelled" /\ fresh_return[p]
        /\ pc[q] = "sleep" /\ api_call_time > 0

\* C18: no session is constructed before the first GET; a supplied session
\* is never replaced and none is constructed beside it; at most one session
\* is ever constructed; every GET in flight was issued on the session the
\* client holds; and a session the client holds is never replaced.
C18_OneLazySession ==
    /\ [](/\ created <= 1
          /\ session = "None" => (created = 0 /\ last_disp = NoTime)
          /\ session = "supplied" => created = 0
          /\ session = "created" => (created = 1 /\ last_disp # NoTime)
          /\ \A p \in Procs :
                pc[p] \in {"get", "json"} => (used[p] = session /\ used[p] # "None"))
    /\ [][session # "None" => session' = session]_vars

\* C18 witness: two callers have a GET in flight on the one session the
\* client constructed.
C18_Witness ==
    /\ session = "created" /\ created = 1
    /\ \A p \in Procs : pc[p] \in {"get", "json"} /\ used[p] = "created"

\* C19: a gateway call sleeps at most once and issues at most one GET; a
\* body is read only from a 200 response, any other status ends the call and
\* the operation at once with an error carrying that status (in a bulk query
\* no later batch is requested), and nothing is requested again.
C19_NoRetry ==
    /\ [](\A p \in Procs :
            /\ sleeps[p] <= 1 /\ gets[p] <= 1
            /\ pc[p] = "json" => (resp_status[p] = 200 /\ gets[p] = 1)
            /\ pc[p] = "get" => (resp_status[p] = 0 /\ gets[p] = 1)
            /\ outcome[p].kind = "error" =>
                  /\ pc[p] = "idle" /\ outcome[p].status # 200
                  /\ Len(requests[p]) >= 1
                  /\ Len(requests[p]) <= (Len(query[p]) + 99) \div 100)
    /\ [][\A p \in Procs :
            /\ (pc[p] = "get" /\ pc'[p] # "get") =>
                  \/ pc'[p] = "json" /\ resp_status'[p] = 200
                  \/ /\ pc'[p] = "idle" /\ outcome'[p].kind = "error"
                     /\ outcome'[p].status \in Statuses \ {200}
                     /\ requests'[p] = requests[p]
            /\ (outcome[p].kind = "error" /\ requests'[p] # requests[p]) =>
                  (pc[p] = "idle" /\ Len(requests'[p]) <= 1)]_vars

\* C19 witness: a bulk query of 150 IDs ended with the error of its first
\* batch, after one request.
C19_Witness ==
    \E p \in Procs :
        /\ op[p] = "bulk" /\ Len(query[p]) = 150 /\ pc[p] = "idle"
        /\ outcome[p].kind = "error" /\ outcome[p].status = 500
        /\ Len(requests[p]) = 1

(* ============================ construction ============================= *)
\* C20: a construction with the item file absent raises FileNotFoundError
\* and leaves API_CLASS as it was before the call; a construction with the
\* file present raises nothing and sets API_CLASS to the new client.
C20_ConstructionAndRegistry ==
    /\ [](ctor.n > 0 =>
            /\ ctor.raised = (IF ctor.file THEN "none" ELSE "FileNotFoundError")
            /\ ~ctor.file => API_CLASS = ctor.prev
            /\ ctor.file => API_CLASS = ctor.n)
    /\ [][ctor'.n # ctor.n =>
            /\ ~ctor'.file => API_CLASS' = API_CLASS
            /\ ctor'.file => (API_CLASS' = ctor'.n /\ API_CLASS' # API_CLASS)]_vars

\* C20 witness: a construction failed after one had succeeded, and the
\* registry still names the earlier client.
C20_Witness ==
    /\ ctor.n >= 2 /\ ~ctor.file /\ ctor.raised = "FileNotFoundError"
    /\ API_CLASS # 0 /\ API_CLASS = ctor.prev /\ API_CLASS # ctor.n

(* ========================= entries: comparison ========================= *)
\* a field of an entry as stored, None when the entry has none
FieldOf(e, name) == IF Has(e.seq, name) THEN Lookup(e.seq, name) ELSE NoneV
IsTimestamp(e) == FieldOf(e, Private(TimeProperty(e.kind))).kind = "datetime"
SameHq(a, b) == a.kind = b.kind /\ PyEq(FieldOf(a, A_hq), FieldOf(b, A_hq))
Earlier(a, b) ==
    /\ SameHq(a, b) /\ IsTimestamp(a) /\ IsTimestamp(b)
    /\ FieldOf(a, Private(TimeProperty(a.kind))).num
         < FieldOf(b, Private(TimeProperty(b.kind))).num
Truth(p) == IF p THEN "true" ELSE "false"

\* C21: a == b is true exactly when both are entries of one class with the
\* same hq flag (and, on history entries, the same price per unit); a < b is
\* true exactly when the hq flags are the same, both times are converted
\* timestamps and a's is strictly earlier, and false otherwise -- in
\* particular a < b and b < a are both false when a time is no timestamp.
C21_EntryComparisons ==
    cmp # NoCmp =>
        LET a == cmp.a
            b == cmp.b
        IN  /\ cmp.eq = Truth(SameHq(a, b)
                              /\ (EqComparesPrice(a.kind) =>
                                    PyEq(FieldOf(a, A_price_per_unit),
                                         FieldOf(b, A_price_per_unit))))
            /\ cmp.lt = Truth(Earlier(a, b))
            /\ cmp.gt = Truth(Earlier(b, a))

(* ======================= reads of the list accessors =================== *)
\* the list the response carries under a key, built element by element
GivenList(key) == Lookup(given.data.seq, key)
BuiltList(key, ecls) ==
    LET ds == DictElements(GivenList(key))
    IN  [k \in 1..Len(ds) |-> Build(ecls, ds[k])]
CarriesList(key) ==
    Has(given.data.seq, key) /\ GivenList(key).kind = "list"
SameElements(s, t) ==
    /\ Len(s) = Len(t)
    /\ \A x \in Range(s) :
          Cardinality({i \in 1..Len(s) : s[i] = x})
            = Cardinality({i \in 1..Len(t) : t[i] = x})
NoInversion(s) ==
    \A k \in 1..Len(s) - 1 : LtR(s[k + 1], s[k]) # "true"

\* C22: on a history aggregate every read of `entries` returns a sorted
\* list of the stored entries and the stored list stays as it was built, in
\* the order of the response, so all reads return equal results; on a
\* current aggregate `listings` and `recent_history` were sorted when
\* assigned and a read returns the stored list.  No read changes the record.
C22_ReadsOfListAccessors ==
    /\ []((given.cls = "HistoryData" /\ CarriesList(K_entries)) =>
            /\ ~IsRaise(obj)
            /\ ReadPlain(obj, A_entries_priv)
                 = ListV(BuiltList(K_entries, "HistoryDataEntries"))
            /\ read.name = A_entries =>
                  /\ read.val.kind = "list"
                  /\ SameElements(read.val.seq, ReadPlain(obj, A_entries_priv).seq)
                  /\ NoInversion(read.val.seq))
    /\ []((given.cls = "CurrentData" /\ ~IsRaise(obj)) =>
            /\ CarriesList(K_listings) =>
                  /\ ReadPlain(obj, A_listings_priv)
                       = Sorted(BuiltList(K_listings, "CurrentDataEntries"))
                  /\ read.name = A_listings =>
                        read.val = ReadPlain(obj, A_listings_priv)
            /\ CarriesList(K_recentHistory) =>
                  /\ ReadPlain(obj, A_recent_history_priv)
                       = Sorted(BuiltList(K_recentHistory, "HistoryDataEntries"))
                  /\ read.name = A_recent_history =>
                        read.val = ReadPlain(obj, A_recent_history_priv))
    /\ [][obj # NoObj => obj' = obj]_vars

(* ============================== stability ============================== *)
\* where an entry stands in a list in which it occurs once
PosIn(s, x) == CHOOSE k \in 1..Len(s) : s[k] = x
Distinct(s) == \A i, j \in 1..Len(s) : s[i] = s[j] => i = j

\* C23: two listings with the same hq flag and the same review time stand
\* in the result of the `listings` accessor in the order they had in the
\* response.
C23_ListingsSortStable ==
    (/\ given.cls = "CurrentData" /\ ~IsRaise(obj) /\ CarriesList(K_listings)
     /\ Distinct(BuiltList(K_listings, "CurrentDataEntries"))
     /\ read.name = A_listings) =>
        LET in  == BuiltList(K_listings, "CurrentDataEntries")
            out == read.val.seq
        IN  \A i, j \in 1..Len(out) :
                (/\ i < j
                 /\ ReadPlain(out[i], A_hq) = ReadPlain(out[j], A_hq)
                 /\ EntryTime(out[i]) = EntryTime(out[j])) =>
                    PosIn(in, out[i]) < PosIn(in, out[j])

(* =============================== budget ================================ *)
\* C24: whatever is assigned to max_api_calls, the stored budget is a
\* positive integer, no gateway call fails computing 1000 / budget, and an
\* assignment of a value that is no integer leaves the budget as it was.
C24_BudgetStaysPositive ==
    /\ [](max_api_calls > 0)
    /\ [](\A p \in Procs : outcome[p].msg # "ZeroDivisionError")
    /\ [][max_api_calls' # max_api_calls =>
            \E v \in BudgetValues : IsInt(v) /\ max_api_calls' = v.num]_vars

(* ======================== short lists of sales ========================= *)
\* C25: a history aggregate stores one built history entry per mapping of
\* its `entries` list whatever the length of the list, and for a list of no
\* or one element the accessor returns these records, never the mappings:
\* an int hq is a bool on the record and an int timestamp that can be
\* converted is a datetime.
C25_ShortEntriesBuilt ==
    (given.cls = "HistoryData" /\ CarriesList(K_entries)) =>
        LET built == BuiltList(K_entries, "HistoryDataEntries")
            raw   == DictElements(GivenList(K_entries))
        IN  /\ ~IsRaise(obj)
            /\ ReadPlain(obj, A_entries_priv) = ListV(built)
            /\ Len(built) = Len(raw)
            /\ (read.name = A_entries /\ Len(GivenList(K_entries).seq) <= 1) =>
                  /\ read.val = ListV(built)
                  /\ \A k \in 1..Len(read.val.seq) :
                        LET e == read.val.seq[k]
                        IN  /\ e.kind = "HistoryDataEntries"
                            /\ (Has(raw[k].seq, K_hq) /\ IsInt(Lookup(raw[k].seq, K_hq))) =>
                                  /\ ReadPlain(e, A_hq).kind = "bool"
                                  /\ ReadPlain(e, A_hq).num
                                       = (IF Lookup(raw[k].seq, K_hq).num = 0 THEN 0 ELSE 1)
                            /\ (/\ Has(raw[k].seq, K_timestamp)
                                /\ IsInt(Lookup(raw[k].seq, K_timestamp))
                                /\ Lookup(raw[k].seq, K_timestamp).num \in 0..MaxTimestamp) =>
                                  EntryTime(e) = DateV(Lookup(raw[k].seq, K_timestamp).num * 1000)

\* C25 witness: the accessor of a history aggregate built from a list of
\* one sale with hq 1 was read and returned one record with hq True.
C25_Witness ==
    /\ given.cls = "HistoryData" /\ CarriesList(K_entries)
    /\ Len(GivenList(K_entries).seq) = 1
    /\ GivenList(K_entries).seq[1].kind = "dict"
    /\ Lookup(GivenList(K_entries).seq[1].seq, K_hq) = IntV(1)
    /\ read.name = A_entries /\ read.val.kind = "list" /\ Len(read.val.seq) = 1
    /\ read.val.seq[1].kind = "HistoryDataEntries"
    /\ ReadPlain(read.val.seq[1], A_hq) = BoolV(TRUE)
    /\ EntryTime(read.val.seq[1]).kind = "datetime"
====
